---- MODULE Spec2Model ----
(***************************************************************************)
(* The MolViewEditor component (src/unnamed/part_000): one Preact function *)
(* component that owns a Monaco editor.  The model follows the three       *)
(* effects of the component, their cleanup, the handlers they install and  *)
(* the one timer they start.                                               *)
(*                                                                         *)
(* The editing engine is a library the component calls.  The calls are     *)
(* modelled by what monaco-editor 0.52.2 does for them:                    *)
(*  - monaco.languages.register appends an entry to the language list; it  *)
(*    does not look for an entry with the same id;                         *)
(*  - monaco.editor.createModel(value, language, uri) throws when the      *)
(*    model service already holds a model under uri;                       *)
(*  - an editor created with options.model does not own that model:        *)
(*    editor.dispose() detaches it and leaves it in the model service;     *)
(*  - a disposed editor answers getModel() with null;                      *)
(*  - setValue always replaces the buffer, empties the undo stack and      *)
(*    raises one content change;                                           *)
(*  - typed characters are grouped into undo elements by the type of the   *)
(*    previous edit operation.                                             *)
(* Any library call may also fail for reasons of its own; the component    *)
(* guards only the language registration, and that failure is an input.    *)
(*                                                                         *)
(* Preact runs all pending effects of a component in one flush, in the     *)
(* order they were declared; an effect that throws ends the flush.         *)
(***************************************************************************)
EXTENDS Integers, Sequences, FiniteSets, TLC

\* Bounds of the model.
MaxMounts == 2
MaxListeners == 2
MaxLen == 2
MaxThrowAt == 1

\* The host's inputs.
NoCallback == "none"
Disposed == "disposed"
SaveCallbacks == {NoCallback, "s1"}
ChangeCallbacks == {NoCallback, "c1"}
Chars == {"x", " "}
HostCodes == {<< >>, <<"x">>}
CodeProps == {[given |-> FALSE, text |-> << >>]} \cup {[given |-> TRUE, text |-> t] : t \in HostCodes}
KeyCombos == {[mod |-> TRUE, key |-> "s"], [mod |-> FALSE, key |-> "s"], [mod |-> TRUE, key |-> "a"]}
Outside == 0
WorkerLabels == {"typescript", "javascript", "json", "css", "html", "editorWorkerService"}

\* const DEFAULT_CODE: the text used when the host gives no initialCode.
DEFAULT_CODE == <<" ">>

\* initialCode = DEFAULT_CODE in the parameter list of MolViewEditor.
InitialCodeOf(p) == IF p.given THEN p.text ELSE DEFAULT_CODE

VARIABLES
  registry,       \* monaco.languages: calls that took effect for "javascript"
  env,            \* window.MonacoEnvironment
  jsDefaults,     \* typescript.javascriptDefaults
  models,         \* the model service: sessions whose model is held under file:///main.js
  sessions,       \* every model + editor pair created by initEditor
  comps,          \* every component instance mounted so far
  listeners,      \* capturing keydown listeners on document, in order of registration
  listenerCount,  \* number of addEventListener calls so far
  calls,          \* host callbacks invoked by the last step, in order
  err,            \* the error the last step let escape, or "none"
  prevented,      \* the last key event had its default prevented
  stopped,        \* the last key event had its propagation stopped
  trace,          \* the calls the last step made on the engine and the page, in order
  lastAction      \* the last step taken

vars == <<registry, env, jsDefaults, models, sessions, comps, listeners,
          listenerCount, calls, err, prevented, stopped, trace, lastAction>>

\* The state at the start of a step; the outputs of the previous step are cleared.
World ==
  [registry |-> registry, env |-> env, jsDefaults |-> jsDefaults,
   models |-> models, sessions |-> sessions, comps |-> comps,
   listeners |-> listeners, listenerCount |-> listenerCount,
   calls |-> << >>, err |-> "none",
   prevented |-> FALSE, stopped |-> FALSE, trace |-> << >>]

Commit(w, act) ==
  /\ registry' = w.registry
  /\ env' = w.env
  /\ jsDefaults' = w.jsDefaults
  /\ models' = w.models
  /\ sessions' = w.sessions
  /\ comps' = w.comps
  /\ listeners' = w.listeners
  /\ listenerCount' = w.listenerCount
  /\ calls' = w.calls
  /\ err' = w.err
  /\ prevented' = w.prevented
  /\ stopped' = w.stopped
  /\ trace' = w.trace
  /\ lastAction' = act

Act(name, comp, arg) == [name |-> name, comp |-> comp, arg |-> arg]

Init ==
  /\ registry = [register |-> 0, tokens |-> 0, conf |-> 0]
  /\ env = [set |-> FALSE, installs |-> 0]
  /\ jsDefaults = [compilerOptions |-> FALSE, diagnosticsOptions |-> FALSE,
                   eagerModelSync |-> FALSE, extraLibs |-> FALSE]
  /\ models = {}
  /\ sessions = << >>
  /\ comps = << >>
  /\ listeners = << >>
  /\ listenerCount = 0
  /\ calls = << >>
  /\ err = "none"
  /\ prevented = FALSE
  /\ stopped = FALSE
  /\ trace = << >>
  /\ lastAction = Act("init", 0, 0)

----------------------------------------------------------------------------
\* The registration effect, useEffect(..., []).

\* try { register; setMonarchTokensProvider; setLanguageConfiguration } catch.
\* throwAt = 0: no call throws; throwAt = n: the n-th call throws and has no
\* effect, and the calls after it are not made.
RegisterLanguage(w, throwAt) ==
  [w EXCEPT
     !.registry = [register |-> @.register + (IF throwAt = 1 THEN 0 ELSE 1),
                   tokens   |-> @.tokens + (IF throwAt \in {1, 2} THEN 0 ELSE 1),
                   conf     |-> @.conf + (IF throwAt \in {1, 2, 3} THEN 0 ELSE 1)],
     !.trace = Append(@, "languages.register")]

\* getWorkerUrl that knows the label "typescript" only.
getWorkerUrlTypescriptOnly(label) ==
  IF label = "typescript" THEN "./ts.worker.js"
  ELSE "./editor.worker.js"

\* getWorkerUrl of the installed MonacoEnvironment.
getWorkerUrl(label) ==
  IF label = "typescript" \/ label = "javascript" THEN "./ts.worker.js"
  ELSE "./editor.worker.js"

\* if (!window.MonacoEnvironment) window.MonacoEnvironment = {...}
InstallEnvironment(w) ==
  IF w.env.set THEN w
  ELSE [w EXCEPT !.env = [set |-> TRUE, installs |-> @.installs + 1]]

RegistrationEffect(w, throwAt) == InstallEnvironment(RegisterLanguage(w, throwAt))

----------------------------------------------------------------------------
\* The editing engine: edits, undo and the change subscription.

\* editor.getValue()
getValue(w, s) == IF w.sessions[s].disposed THEN << >> ELSE w.sessions[s].text

\* A subscription that forwards the changed fragment instead of editor.getValue().
OnDidChangeModelContentFragment(w, s) ==
  IF w.sessions[s].subscription \notin {Disposed, NoCallback}
  THEN [w EXCEPT !.calls = Append(@, [kind |-> "onCodeChange",
                                       cb |-> w.sessions[s].subscription,
                                       payload |-> IF getValue(w, s) = << >> THEN << >>
                                                   ELSE <<getValue(w, s)[Len(getValue(w, s))]>>,
                                       sess |-> s])]
  ELSE w

\* editor.onDidChangeModelContent(() => { if (onCodeChange) onCodeChange(editor.getValue()) })
OnDidChangeModelContent(w, s) ==
  IF w.sessions[s].subscription \notin {Disposed, NoCallback}
  THEN [w EXCEPT !.calls = Append(@, [kind |-> "onCodeChange",
                                       cb |-> w.sessions[s].subscription,
                                       payload |-> getValue(w, s), sess |-> s])]
  ELSE w

\* The type of a typing operation, from the typed text and the previous operation.
getTypingOperation(ch, prev) ==
  IF ch = " "
  THEN (IF prev \in {"firstSpace", "consecutiveSpace"} THEN "consecutiveSpace" ELSE "firstSpace")
  ELSE "typingOther"

normalizeOperationType(op) ==
  IF op \in {"firstSpace", "consecutiveSpace"} THEN "space" ELSE op

\* Whether an undo stop goes between the previous operation and this typing operation.
shouldPushStackElementBetween(prev, op) ==
  IF prev = "firstSpace" THEN FALSE
  ELSE normalizeOperationType(prev) # normalizeOperationType(op)

\* One typed character: the "type" command of the editor.
TypeText(w, s, ch) ==
  LET ss == w.sessions[s]
      op == getTypingOperation(ch, ss.prevOp)
      push == ss.undoStack = << >> \/ shouldPushStackElementBetween(ss.prevOp, op)
      w1 == [w EXCEPT !.sessions[s].text = Append(@, ch),
                      !.sessions[s].prevOp = op,
                      !.sessions[s].undoStack = IF push THEN Append(@, ss.text) ELSE @]
  IN OnDidChangeModelContent(w1, s)

\* The "undo" command of the editor: reverts the last undo element, if any.
UndoEdit(w, s) ==
  LET ss == w.sessions[s] IN
  IF ss.undoStack = << >> THEN w
  ELSE OnDidChangeModelContent(
         [w EXCEPT !.sessions[s].text = ss.undoStack[Len(ss.undoStack)],
                   !.sessions[s].undoStack = SubSeq(@, 1, Len(@) - 1),
                   !.sessions[s].prevOp = "other"], s)

\* setValue done as two edits, a deletion of the whole buffer and an insertion:
\* two content changes instead of one.
setValueInTwoEdits(w, s, text) ==
  OnDidChangeModelContent(
    [OnDidChangeModelContent([w EXCEPT !.sessions[s].text = << >>], s)
       EXCEPT !.sessions[s].text = text,
              !.sessions[s].undoStack = << >>,
              !.sessions[s].prevOp = "other"], s)

\* editor.setValue(text)
setValue(w, s, text) ==
  OnDidChangeModelContent(
    [w EXCEPT !.sessions[s].text = text,
              !.sessions[s].undoStack = << >>,
              !.sessions[s].prevOp = "other"], s)

\* editor.dispose(): the key binding and the subscription go with the editor,
\* the model it was given stays in the model service.
DisposeEditor(w, s) ==
  [w EXCEPT !.sessions[s].disposed = TRUE,
            !.sessions[s].command = Disposed,
            !.sessions[s].subscription = Disposed,
            !.trace = Append(@, "dispose")]

----------------------------------------------------------------------------
\* The session effect, useEffect(..., [onSave]).

\* document.addEventListener("keydown", handleKeyDown, true)
AddListener(w, k) ==
  [w EXCEPT !.listenerCount = @ + 1,
            !.listeners = Append(@, [id |-> w.listenerCount + 1, comp |-> k,
                                     onSave |-> w.comps[k].onSave]),
            !.trace = Append(@, "addEventListener")]

\* The three javascriptDefaults calls at the head of initEditor.
ConfigureDefaults(w) ==
  [w EXCEPT !.jsDefaults.compilerOptions = TRUE,
            !.jsDefaults.diagnosticsOptions = TRUE,
            !.jsDefaults.eagerModelSync = TRUE,
            !.trace = @ \o <<"setCompilerOptions", "setDiagnosticsOptions">>]

\* createModel given DEFAULT_CODE in place of the initialCode prop.
CreateSessionDefaultCode(w, k) ==
  IF w.models # {}
  THEN [w EXCEPT !.err = "createModel", !.trace = Append(@, "createModel")]
  ELSE LET s == Len(w.sessions) + 1
           ss == [comp |-> k, text |-> DEFAULT_CODE,
                  disposed |-> FALSE, timer |-> TRUE,
                  command |-> w.comps[k].onSave,
                  subscription |-> w.comps[k].onCodeChange,
                  prevOp |-> "other", undoStack |-> << >>,
                  listener |-> w.listenerCount]
       IN [w EXCEPT !.sessions = Append(@, ss),
                    !.models = @ \cup {s},
                    !.comps[k].editorRef = s,
                    !.jsDefaults.extraLibs = TRUE,
                    !.comps[k].isReady = TRUE,
                    !.comps[k].cleanup = w.listenerCount,
                    !.trace = @ \o <<"createModel", "create", "setupMonacoCodeCompletion">>]

\* initEditor, from createModel on.  k's listener has the id listenerCount.
CreateSession(w, k) ==
  IF w.models # {}
  THEN [w EXCEPT !.err = "createModel", !.trace = Append(@, "createModel")]
  ELSE LET s == Len(w.sessions) + 1
           ss == [comp |-> k, text |-> w.comps[k].initialCode,
                  disposed |-> FALSE, timer |-> TRUE,
                  command |-> w.comps[k].onSave,
                  subscription |-> w.comps[k].onCodeChange,
                  prevOp |-> "other", undoStack |-> << >>,
                  listener |-> w.listenerCount]
       IN [w EXCEPT !.sessions = Append(@, ss),
                    !.models = @ \cup {s},
                    !.comps[k].editorRef = s,
                    !.jsDefaults.extraLibs = TRUE,
                    !.comps[k].isReady = TRUE,
                    !.comps[k].cleanup = w.listenerCount,
                    !.trace = @ \o <<"createModel", "create", "setupMonacoCodeCompletion">>]

initEditor(w, k) == CreateSession(ConfigureDefaults(w), k)

\* The session effect without its first line.
SessionEffectNoGuard(w, k) == initEditor(AddListener(w, k), k)

SessionEffect(w, k) ==
  IF ~w.comps[k].container THEN w
  ELSE initEditor(AddListener(w, k), k)

\* The function the session effect returns.
RECURSIVE RemoveListener(_, _)
RemoveListener(ls, id) ==
  IF ls = << >> THEN << >>
  ELSE IF Head(ls).id = id THEN Tail(ls)
  ELSE <<Head(ls)>> \o RemoveListener(Tail(ls), id)

\* A cleanup that removes the listener and clears the reference but does not
\* dispose the editor.
SessionCleanupKeepsEditor(w, k) ==
  IF w.comps[k].cleanup = 0 THEN w
  ELSE [w EXCEPT !.listeners = RemoveListener(@, w.comps[k].cleanup),
                 !.comps[k].cleanup = 0,
                 !.comps[k].editorRef = 0,
                 !.trace = @ \o <<"removeEventListener", "clearRef">>]

\* The returned function with the editor disposed before the listener is removed.
TeardownDisposeFirst(w, k, id) ==
  LET s == w.comps[k].editorRef
      w1 == IF s = 0 THEN w
            ELSE [DisposeEditor(w, s) EXCEPT !.comps[k].editorRef = 0,
                                             !.trace = Append(@, "clearRef")]
  IN [w1 EXCEPT !.listeners = RemoveListener(@, id),
                !.trace = Append(@, "removeEventListener")]

\* The body of the returned function; id is the listener of its effect run.
Teardown(w, k, id) ==
  LET w1 == [w EXCEPT !.listeners = RemoveListener(@, id),
                      !.trace = Append(@, "removeEventListener")]
      s == w.comps[k].editorRef
  IN IF s = 0 THEN w1
     ELSE [DisposeEditor(w1, s) EXCEPT !.comps[k].editorRef = 0,
                                       !.trace = Append(@, "clearRef")]

\* Preact calls the function an effect run returned once, before the next run
\* of the effect or at unmount; a run that returned nothing has no cleanup.
SessionCleanup(w, k) ==
  IF w.comps[k].cleanup = 0 THEN w
  ELSE Teardown([w EXCEPT !.comps[k].cleanup = 0], k, w.comps[k].cleanup)

----------------------------------------------------------------------------
\* The initialCode effect, useEffect(..., [initialCode, isReady]).

\* The effect without the comparison against the live text.
InitialCodeEffectNoCompare(w, k) ==
  LET s == w.comps[k].editorRef IN
  IF s # 0 /\ w.comps[k].renderedReady
  THEN setValue(w, s, w.comps[k].initialCode)
  ELSE w

InitialCodeEffect(w, k) ==
  LET s == w.comps[k].editorRef IN
  IF s # 0 /\ w.comps[k].renderedReady
  THEN (IF getValue(w, s) # w.comps[k].initialCode
        THEN setValue(w, s, w.comps[k].initialCode)
        ELSE w)
  ELSE w

----------------------------------------------------------------------------
\* Rendering.  A render fixes the props and the isReady value the closures of
\* its effects see, then the effects whose dependencies changed are flushed.

Flush(w, k, runSession, runInitialCode) ==
  LET w1 == IF runSession THEN SessionEffect(SessionCleanup(w, k), k) ELSE w
  IN IF runInitialCode /\ w1.err = "none" THEN InitialCodeEffect(w1, k) ELSE w1

Render(w, k, code, cbSave, cbChange) ==
  LET c == w.comps[k]
      w0 == [w EXCEPT !.comps[k].initialCode = code,
                      !.comps[k].onSave = cbSave,
                      !.comps[k].onCodeChange = cbChange,
                      !.comps[k].renderedReady = c.isReady]
  IN Flush(w0, k, cbSave # c.onSave,
           code # c.initialCode \/ c.isReady # c.renderedReady)

\* First render of a new component instance and its first flush.  attached
\* says whether containerRef.current holds the div when the effects run.
\* The effects of a mount flushed with the session effect ahead of the
\* registration effect.
MountComponentSessionFirst(w, code, cbSave, cbChange, throwAt, attached) ==
  LET k == Len(w.comps) + 1
      c == [mounted |-> TRUE, container |-> attached, editorRef |-> 0,
            isReady |-> FALSE, renderedReady |-> FALSE,
            initialCode |-> code, onSave |-> cbSave, onCodeChange |-> cbChange,
            cleanup |-> 0]
      w0 == [w EXCEPT !.comps = Append(@, c)]
  IN RegistrationEffect(Flush(w0, k, TRUE, TRUE), throwAt)

MountComponent(w, code, cbSave, cbChange, throwAt, attached) ==
  LET k == Len(w.comps) + 1
      c == [mounted |-> TRUE, container |-> attached, editorRef |-> 0,
            isReady |-> FALSE, renderedReady |-> FALSE,
            initialCode |-> code, onSave |-> cbSave, onCodeChange |-> cbChange,
            cleanup |-> 0]
      w0 == [w EXCEPT !.comps = Append(@, c)]
  IN Flush(RegistrationEffect(w0, throwAt), k, TRUE, TRUE)

\* A component instance that was removed: its props and state are gone.
Released ==
  [mounted |-> FALSE, container |-> FALSE, editorRef |-> 0,
   isReady |-> FALSE, renderedReady |-> FALSE,
   initialCode |-> << >>, onSave |-> NoCallback, onCodeChange |-> NoCallback,
   cleanup |-> 0]

\* Removal of the component: the cleanup runs, then the ref of the div is cleared.
UnmountComponent(w, k) ==
  LET w1 == SessionCleanup(w, k)
  IN [w1 EXCEPT !.comps[k] = [Released EXCEPT !.editorRef = w1.comps[k].editorRef,
                                              !.cleanup = w1.comps[k].cleanup]]

----------------------------------------------------------------------------
\* Key events.

\* handleKeyDown without e.stopPropagation().
handleKeyDownNoStop(w, l, target, mod, key) ==
  IF mod /\ key = "s"
  THEN (IF w.comps[l.comp].container /\ target = l.comp
        THEN LET w1 == [w EXCEPT !.prevented = TRUE]
                 s == w.comps[l.comp].editorRef
             IN IF l.onSave # NoCallback /\ s # 0
                THEN [w1 EXCEPT !.calls = Append(@, [kind |-> "onSave", cb |-> l.onSave,
                                                      payload |-> getValue(w, s), sess |-> s])]
                ELSE w1
        ELSE w)
  ELSE w

\* handleKeyDown without the test that the target is within the container.
handleKeyDownAnyTarget(w, l, target, mod, key) ==
  IF mod /\ key = "s"
  THEN LET w1 == [w EXCEPT !.prevented = TRUE, !.stopped = TRUE]
           s == w.comps[l.comp].editorRef
       IN IF l.onSave # NoCallback /\ s # 0
          THEN [w1 EXCEPT !.calls = Append(@, [kind |-> "onSave", cb |-> l.onSave,
                                                payload |-> getValue(w, s), sess |-> s])]
          ELSE w1
  ELSE w

\* handleKeyDown with preventDefault and stopPropagation inside the
\* if (onSave && editorRef.current) branch.
handleKeyDownPreventOnlyOnSave(w, l, target, mod, key) ==
  IF mod /\ key = "s"
  THEN (IF w.comps[l.comp].container /\ target = l.comp
        THEN LET s == w.comps[l.comp].editorRef
             IN IF l.onSave # NoCallback /\ s # 0
                THEN [w EXCEPT !.prevented = TRUE, !.stopped = TRUE,
                               !.calls = Append(@, [kind |-> "onSave", cb |-> l.onSave,
                                                    payload |-> getValue(w, s), sess |-> s])]
                ELSE w
        ELSE w)
  ELSE w

\* handleKeyDown of the listener l, for a keydown with the given target.
handleKeyDown(w, l, target, mod, key) ==
  IF mod /\ key = "s"
  THEN (IF w.comps[l.comp].container /\ target = l.comp
        THEN LET w1 == [w EXCEPT !.prevented = TRUE, !.stopped = TRUE]
                 s == w.comps[l.comp].editorRef
             IN IF l.onSave # NoCallback /\ s # 0
                THEN [w1 EXCEPT !.calls = Append(@, [kind |-> "onSave", cb |-> l.onSave,
                                                      payload |-> getValue(w, s), sess |-> s])]
                ELSE w1
        ELSE w)
  ELSE w

\* The capture phase at document: every registered listener runs, in order.
RECURSIVE CaptureAtDocument(_, _, _, _, _)
CaptureAtDocument(w, i, target, mod, key) ==
  IF i > Len(w.listeners) THEN w
  ELSE CaptureAtDocument(handleKeyDown(w, w.listeners[i], target, mod, key),
                         i + 1, target, mod, key)

\* editor.addCommand(CtrlCmd | KeyS, () => { if (onSave) onSave(editor.getValue()) })
SaveCommand(w, s) ==
  LET w1 == [w EXCEPT !.prevented = TRUE] IN
  IF w.sessions[s].command # NoCallback
  THEN [w1 EXCEPT !.calls = Append(@, [kind |-> "onSave", cb |-> w.sessions[s].command,
                                        payload |-> getValue(w, s), sess |-> s])]
  ELSE w1

\* The editors that receive a keydown with this target: the live editors in the container.
EditorsIn(w, target) ==
  {s \in 1..Len(w.sessions) : w.sessions[s].comp = target /\ w.sessions[s].command # Disposed}

RECURSIVE RunCommands(_, _)
RunCommands(w, S) ==
  IF S = {} THEN w
  ELSE LET s == CHOOSE x \in S : \A y \in S : x <= y
       IN RunCommands(SaveCommand(w, s), S \ {s})

\* One keydown: the capture phase, then the key bindings of the target's
\* editor unless the propagation was stopped.
DispatchKeyDown(w, target, mod, key) ==
  LET w1 == CaptureAtDocument(w, 1, target, mod, key)
  IN IF ~w1.stopped /\ mod /\ key = "s"
     THEN RunCommands(w1, EditorsIn(w1, target))
     ELSE w1

----------------------------------------------------------------------------
\* setTimeout(() => { const model = editor.getModel(); if (model) {type " "; undo} }, 1000)
ValidationNudge(w, s) ==
  LET w1 == [w EXCEPT !.sessions[s].timer = FALSE] IN
  IF w.sessions[s].disposed THEN w1
  ELSE UndoEdit(TypeText(w1, s, " "), s)

----------------------------------------------------------------------------
\* The steps of the system.

Mounted == {k \in 1..Len(comps) : comps[k].mounted}

Mount ==
  \E p \in CodeProps, cbSave \in SaveCallbacks, cbChange \in ChangeCallbacks, throwAt \in 0..MaxThrowAt :
    /\ Len(comps) < MaxMounts
    /\ listenerCount < MaxListeners
    /\ Commit(MountComponent(World, InitialCodeOf(p), cbSave, cbChange, throwAt, TRUE),
              Act("Mount", Len(comps) + 1, throwAt))

Unmount ==
  \E k \in Mounted :
    Commit(UnmountComponent(World, k), Act("Unmount", k, comps[k].cleanup))

SetInitialCode ==
  \E k \in Mounted, p \in CodeProps :
    /\ InitialCodeOf(p) # comps[k].initialCode
    /\ Commit(Render(World, k, InitialCodeOf(p), comps[k].onSave, comps[k].onCodeChange),
              Act("SetInitialCode", k, 0))

SetOnSave ==
  \E k \in Mounted, cb \in SaveCallbacks :
    /\ cb # comps[k].onSave
    /\ listenerCount < MaxListeners
    /\ Commit(Render(World, k, comps[k].initialCode, cb, comps[k].onCodeChange),
              Act("SetOnSave", k, 0))

SetOnCodeChange ==
  \E k \in Mounted, cb \in ChangeCallbacks :
    /\ cb # comps[k].onCodeChange
    /\ Commit(Render(World, k, comps[k].initialCode, comps[k].onSave, cb),
              Act("SetOnCodeChange", k, 0))

\* The render that setIsReady(true) asked for.
Rerender ==
  \E k \in Mounted :
    /\ comps[k].isReady # comps[k].renderedReady
    /\ Commit(Render(World, k, comps[k].initialCode, comps[k].onSave, comps[k].onCodeChange),
              Act("Rerender", k, 0))

\* The user types one character into a live editor.
Type ==
  \E s \in 1..Len(sessions), ch \in Chars :
    /\ ~sessions[s].disposed
    /\ comps[sessions[s].comp].container
    /\ Len(sessions[s].text) < MaxLen
    /\ Commit(TypeText(World, s, ch), Act("Type", sessions[s].comp, s))

\* A keydown somewhere in the page.
KeyDown ==
  \E target \in {Outside} \cup {k \in Mounted : comps[k].container}, combo \in KeyCombos :
    Commit(DispatchKeyDown(World, target, combo.mod, combo.key),
           Act("KeyDown", target, combo))

\* The timer of a session fires.
NudgeTimer ==
  \E s \in 1..Len(sessions) :
    /\ sessions[s].timer
    /\ Commit(ValidationNudge(World, s),
              Act("NudgeTimer", sessions[s].comp, s))

Next ==
  \/ Mount
  \/ Unmount
  \/ SetInitialCode
  \/ SetOnSave
  \/ SetOnCodeChange
  \/ Rerender
  \/ Type
  \/ KeyDown
  \/ NudgeTimer

Spec == Init /\ [][Next]_vars

\* A mount whose effects run while containerRef.current is null.  Preact
\* attaches the div before it flushes the effects, so this step is not part of
\* Spec; it belongs to a host whose renderer does not.
MountDetached ==
  \E p \in CodeProps, cbSave \in SaveCallbacks, cbChange \in ChangeCallbacks, throwAt \in 0..MaxThrowAt :
    /\ Len(comps) < MaxMounts
    /\ Commit(MountComponent(World, InitialCodeOf(p), cbSave, cbChange, throwAt, FALSE),
              Act("MountDetached", Len(comps) + 1, throwAt))

DetachedNext ==
  \/ Mount
  \/ MountDetached
  \/ Unmount
  \/ SetOnSave
  \/ Rerender
  \/ KeyDown

DetachedSpec == Init /\ [][DetachedNext]_vars

\* Controlled usage: the host hands the payload of the last onCodeChange call
\* it received from the component back as initialCode.
Echo ==
  \E k \in Mounted :
    /\ calls # << >>
    /\ calls[Len(calls)].kind = "onCodeChange"
    /\ sessions[calls[Len(calls)].sess].comp = k
    /\ Commit(Render(World, k, calls[Len(calls)].payload, comps[k].onSave, comps[k].onCodeChange),
              Act("Echo", k, calls[Len(calls)].sess))

ControlledNext ==
  \/ Mount
  \/ Unmount
  \/ Rerender
  \/ Type
  \/ NudgeTimer
  \/ Echo

ControlledSpec == Init /\ [][ControlledNext]_vars

\* The engine asks the installed environment for the resource of a worker.
RequestWorker ==
  \E label \in WorkerLabels :
    /\ env.set
    /\ Commit(World, Act("RequestWorker", 0, [label |-> label, url |-> getWorkerUrl(label)]))

\* The registrar and the worker requests alone.
WorkerNext ==
  \/ Mount
  \/ Unmount
  \/ RequestWorker

WorkerSpec == Init /\ [][WorkerNext]_vars

----------------------------------------------------------------------------
\* Vocabulary of the properties.

\* The session of component k is Ready: isReady is set and the editor reference is live.
Ready(k) == comps[k].mounted /\ comps[k].editorRef # 0 /\ comps[k].isReady

SaveCombo == [mod |-> TRUE, key |-> "s"]

OnSaveCalls == {i \in 1..Len(calls) : calls[i].kind = "onSave"}

----------------------------------------------------------------------------
\* C1: over every sequence of mounts and unmounts in one process, the
\* registration effect (language entry, tokenizer, language configuration,
\* worker resolution) occurs at most once.
C1_RegistrationAtMostOnce ==
  /\ registry.register <= 1
  /\ registry.tokens <= 1
  /\ registry.conf <= 1
  /\ env.installs <= 1

\* C2: a mount whose language registration throws still creates the document
\* and the widget and reaches Ready, and lets no error escape.  Stated for a
\* mount made while no other instance of the component is mounted.
C2_MountSurvivesRegistrationFailure ==
  (/\ lastAction.name = "Mount" /\ lastAction.arg # 0
   /\ \A j \in 1..Len(comps) : j # lastAction.comp => ~comps[j].mounted) =>
     /\ err = "none"
     /\ Ready(lastAction.comp)
     /\ comps[lastAction.comp].editorRef \in models

\* C3: right after the step in which a session reaches Ready, the live text
\* of its document is the initialCode the component was given.
C3_InitialTextAtReady ==
  \A k \in 1..Len(comps) :
    (lastAction.name \in {"Mount", "SetOnSave"} /\ lastAction.comp = k /\ Ready(k)) =>
       getValue(World, comps[k].editorRef) = comps[k].initialCode

C3_Witness ==
  /\ lastAction.name = "Mount"
  /\ Ready(lastAction.comp)
  /\ sessions[comps[lastAction.comp].editorRef].text = <<"x">>
  /\ comps[lastAction.comp].initialCode = <<"x">>

\* C4: while Ready, a new initialCode equal to the live text of the document
\* causes no replace: the document (text, undo history) is as it was and no
\* callback of the host is invoked.
C4_SameCodeIsNoOp ==
  [][\A k \in 1..Len(comps) :
       (/\ lastAction'.name = "SetInitialCode" /\ lastAction'.comp = k
        /\ Ready(k)
        /\ comps'[k].initialCode = sessions[comps[k].editorRef].text)
       => (sessions' = sessions /\ calls' = << >> /\ err' = "none")]_vars

C4_Witness ==
  /\ lastAction.name = "SetInitialCode"
  /\ Ready(lastAction.comp)
  /\ sessions[comps[lastAction.comp].editorRef].text = comps[lastAction.comp].initialCode
  /\ sessions[comps[lastAction.comp].editorRef].undoStack # << >>
  /\ sessions[comps[lastAction.comp].editorRef].subscription # NoCallback
  /\ calls = << >>

C6_SaveCallsOnSaveOnce ==
  [][\A k \in 1..Len(comps) :
       (/\ lastAction'.name = "KeyDown" /\ lastAction'.comp = k /\ lastAction'.arg = SaveCombo
        /\ Ready(k)
        /\ comps[k].onSave # NoCallback)
       => /\ calls' = <<[kind |-> "onSave", cb |-> comps[k].onSave,
                         payload |-> sessions[comps[k].editorRef].text,
                         sess |-> comps[k].editorRef]>>
          /\ sessions' = sessions
          /\ err' = "none"]_vars

C6_Witness ==
  /\ lastAction.name = "KeyDown" /\ lastAction.arg = SaveCombo
  /\ lastAction.comp # Outside
  /\ Ready(lastAction.comp)
  /\ Len(calls) = 1
  /\ calls[1].kind = "onSave"
  /\ calls[1].payload = <<"x", " ">>

\* C7: a keydown whose target is outside every container invokes no onSave,
\* in any state.
C7_OutsideNeverSaves ==
  (lastAction.name = "KeyDown" /\ lastAction.comp = Outside) => OnSaveCalls = {}

C7_Witness ==
  /\ lastAction.name = "KeyDown" /\ lastAction.comp = Outside /\ lastAction.arg = SaveCombo
  /\ \E k \in 1..Len(comps) : Ready(k) /\ comps[k].onSave # NoCallback
  /\ calls = << >>

\* C8: no step invokes a host callback for a session whose component was
\* already unmounted, and the timer of a disposed session changes nothing but
\* its own pending flag and raises no error.
C8_SilentAfterUnmount ==
  [][/\ \A i \in 1..Len(calls') :
          LET k == sessions'[calls'[i].sess].comp
          IN k \in DOMAIN comps => comps[k].mounted
     /\ \A s \in 1..Len(sessions) :
          (lastAction'.name = "NudgeTimer" /\ lastAction'.arg = s /\ sessions[s].disposed)
          => /\ sessions' = [sessions EXCEPT ![s].timer = FALSE]
             /\ UNCHANGED <<registry, env, jsDefaults, models, comps, listeners, listenerCount>>
             /\ calls' = << >>
             /\ err' = "none"]_vars

C8_Witness ==
  /\ lastAction.name = "NudgeTimer"
  /\ sessions[lastAction.arg].disposed
  /\ ~comps[lastAction.comp].mounted
  /\ sessions[lastAction.arg].undoStack # << >>

\* C9: the document created at mount is destroyed by teardown: every
\* document the model service holds under file:///main.js belongs to an
\* editor that was not torn down.
C9_DocumentDestroyedOnTeardown ==
  \A s \in models : ~sessions[s].disposed /\ comps[sessions[s].comp].editorRef = s

\* C10: every capturing keydown listener, save key binding and change
\* subscription belongs to a live session of a mounted component.  The
\* listeners are looked at in the runs with a single component instance.
C10_NoDanglingHandlers ==
  /\ \A i \in 1..Len(listeners) : Len(comps) = 1 =>
       LET l == listeners[i] IN
         /\ comps[l.comp].mounted
         /\ comps[l.comp].cleanup = l.id
         /\ comps[l.comp].editorRef # 0
  /\ \A s \in 1..Len(sessions) :
       (sessions[s].command # Disposed \/ sessions[s].subscription # Disposed)
       => (comps[sessions[s].comp].mounted /\ comps[sessions[s].comp].editorRef = s)

\* C11: every edit raises at most one change notification (one for a typed
\* character, one for a replace, two for the type and undo of the timer), and
\* a notification carries the full live text: the last payload of a step is
\* the text of the document after the step, and the first payload of the
\* timer is the text with the typed space.
C11_NotificationsCarryFullText ==
  [][/\ lastAction'.name \in {"Type", "SetInitialCode", "Rerender"} => Len(calls') <= 1
     /\ lastAction'.name = "NudgeTimer" =>
          /\ Len(calls') <= 2
          /\ Len(calls') = 2 =>
               calls'[1].payload = Append(sessions[lastAction'.arg].text, " ")
     /\ \A i \in 1..Len(calls') :
          (calls'[i].kind = "onCodeChange" /\ i = Len(calls'))
          => calls'[i].payload = sessions'[calls'[i].sess].text]_vars

C11_Witness ==
  /\ lastAction.name = "Type"
  /\ calls = <<[kind |-> "onCodeChange", cb |-> "c1", payload |-> <<"x", " ">>,
               sess |-> lastAction.arg]>>
  /\ sessions[lastAction.arg].text = <<"x", " ">>
  /\ sessions[lastAction.arg].undoStack = << <<>>, <<"x">> >>

\* C12: the installed resolution function answers every worker label with a
\* resource: "typescript" and "javascript" with ./ts.worker.js, every other
\* label with ./editor.worker.js.
C12_WorkerResolution ==
  lastAction.name = "RequestWorker" =>
    LET a == lastAction.arg IN
      /\ a.label \in {"typescript", "javascript"} => a.url = "./ts.worker.js"
      /\ a.label \notin {"typescript", "javascript"} => a.url = "./editor.worker.js"
      /\ a.url \in {"./ts.worker.js", "./editor.worker.js"}

C12_Witness ==
  /\ lastAction.name = "RequestWorker"
  /\ lastAction.arg = [label |-> "javascript", url |-> "./ts.worker.js"]
  /\ env.installs = 1
  /\ Len(comps) = 2

\* C13: teardown removes the capturing listener, then disposes the widget,
\* then clears the editor reference; the listener a session registered is
\* gone whenever its widget is disposed or the reference to it is cleared.
C13_TeardownOrder ==
  /\ \A i \in 1..Len(trace) :
       /\ trace[i] = "dispose" => \E h \in 1..(i - 1) : trace[h] = "removeEventListener"
       /\ trace[i] = "clearRef" => i > 1 /\ trace[i - 1] = "dispose"
  /\ \A s \in 1..Len(sessions) :
       (sessions[s].disposed \/ comps[sessions[s].comp].editorRef # s)
       => \A i \in 1..Len(listeners) : listeners[i].id # sessions[s].listener

C13_Witness ==
  /\ lastAction.name = "Unmount"
  /\ trace = <<"removeEventListener", "dispose", "clearRef">>
  /\ \E s \in 1..Len(sessions) : sessions[s].disposed /\ sessions[s].comp = lastAction.comp
  /\ listeners = << >>

\* The function an unmount called, called once more.
SecondTeardown ==
  Teardown(World, lastAction.comp, lastAction.arg)

\* C14: an effect run that finds no container creates no document and no
\* widget, registers no listener, sets no Ready flag and throws nothing; the
\* unmount of a component that has no session tears nothing down and throws
\* nothing; the returned function called a second time changes nothing.
C14_MissingContainerAndTeardown ==
  [][/\ \A k \in 1..Len(comps') :
          (/\ lastAction'.name \in {"MountDetached", "SetOnSave"} /\ lastAction'.comp = k
           /\ ~comps'[k].container)
          => /\ sessions' = sessions /\ models' = models
             /\ listeners' = listeners /\ listenerCount' = listenerCount
             /\ jsDefaults' = jsDefaults
             /\ ~comps'[k].isReady /\ comps'[k].editorRef = 0 /\ comps'[k].cleanup = 0
             /\ calls' = << >> /\ err' = "none"
     /\ \A k \in 1..Len(comps) :
          (lastAction'.name = "Unmount" /\ lastAction'.comp = k /\ comps[k].editorRef = 0)
          => /\ sessions' = sessions /\ models' = models /\ listeners' = listeners
             /\ trace' = << >> /\ calls' = << >> /\ err' = "none"
     /\ (lastAction'.name = "Unmount" /\ lastAction'.arg # 0)
          => /\ [SecondTeardown EXCEPT !.trace = << >>]' = World'
             /\ SecondTeardown'.trace = <<"removeEventListener">>]_vars

C14_Witness ==
  /\ lastAction.name = "SetOnSave"
  /\ comps[lastAction.comp].mounted
  /\ ~comps[lastAction.comp].container
  /\ comps[lastAction.comp].onSave = "s1"
  /\ trace = << >>
  /\ listeners = << >>
  /\ sessions = << >>

\* C15: under controlled usage one typed character raises exactly one change
\* notification, and the echo of a payload finds it identical to the live
\* text: no replace, no further notification, nothing left to echo, and the
\* document holds the text the user typed.
C15_NoFeedbackLoop ==
  [][/\ \A s \in 1..Len(sessions) :
          (lastAction'.name = "Type" /\ lastAction'.arg = s
           /\ sessions[s].subscription # NoCallback)
          => /\ Len(calls') = 1
             /\ calls'[1].payload = sessions'[s].text
     /\ \A k \in 1..Len(comps) :
          (lastAction'.name = "Echo" /\ lastAction'.comp = k)
          => /\ calls' = << >>
             /\ sessions' = sessions
             /\ comps'[k].initialCode = sessions[lastAction'.arg].text
             /\ err' = "none"]_vars

C15_Witness ==
  /\ lastAction.name = "Echo"
  /\ Ready(lastAction.comp)
  /\ comps[lastAction.comp].renderedReady
  /\ comps[lastAction.comp].editorRef = lastAction.arg
  /\ comps[lastAction.comp].initialCode = <<"x", "x">>
  /\ sessions[lastAction.arg].text = <<"x", "x">>
  /\ sessions[lastAction.arg].undoStack # << >>
  /\ calls = << >>

\* C16: the nudge is performed at most once per session, and when it has
\* completed the live text of the document equals the text it held right
\* before the nudge, whatever was done to the document since creation.
C16_NudgeRestoresText ==
  [][\A s \in 1..Len(sessions) :
       (lastAction'.name = "NudgeTimer" /\ lastAction'.arg = s /\ ~sessions[s].disposed)
       => /\ sessions'[s].text = sessions[s].text
          /\ ~sessions'[s].timer]_vars

\* The calls of the completion provisioner.
ProvisioningSteps == {"setCompilerOptions", "setDiagnosticsOptions", "setupMonacoCodeCompletion"}

\* C17: every provisioning call of a session comes after a run of the
\* registrar in the same process: either the registrar ran in an earlier
\* step, or it ran earlier in the same flush; this includes the session
\* effect re-run by a new onSave, which has no registrar run of its own.
C17_ProvisioningAfterRegistrar ==
  [][\A i \in 1..Len(trace') :
       trace'[i] \in ProvisioningSteps
       => \/ env.set
          \/ \E h \in 1..(i - 1) : trace'[h] = "languages.register"]_vars

C17_Witness ==
  /\ lastAction.name = "SetOnSave"
  /\ \E i \in 1..Len(trace) : trace[i] = "setCompilerOptions"
  /\ \A i \in 1..Len(trace) : trace[i] # "languages.register"
  /\ jsDefaults.extraLibs
  /\ env.installs = 1

\* C18: every edit made while Ready is forwarded, with the current text, to
\* the onCodeChange the host currently supplies, and to no other callback:
\* after the host replaced onCodeChange the next edit goes to the new one.
C18_EditsReachCurrentCallback ==
  [][\A s \in 1..Len(sessions) :
       (lastAction'.name = "Type" /\ lastAction'.arg = s /\ Ready(sessions[s].comp))
       => /\ \A i \in 1..Len(calls') : calls'[i].cb = comps[sessions[s].comp].onCodeChange
          /\ comps[sessions[s].comp].onCodeChange # NoCallback
             => calls' = <<[kind |-> "onCodeChange",
                            cb |-> comps[sessions[s].comp].onCodeChange,
                            payload |-> sessions'[s].text, sess |-> s]>>]_vars

\* C19: a new onSave supplied while the session is Ready tears the session
\* down and creates it again: the old listener is removed and the old widget
\* disposed, a new document and widget hold the current initialCode, the
\* component is Ready again and nothing was thrown, and the save command of
\* the new session calls the new callback.
C19_NewOnSaveRecreatesSession ==
  [][\A k \in 1..Len(comps) :
       (lastAction'.name = "SetOnSave" /\ lastAction'.comp = k /\ Ready(k))
       => /\ sessions'[comps[k].editorRef].disposed
          /\ \A i \in 1..Len(listeners') :
               listeners'[i].id # sessions[comps[k].editorRef].listener
          /\ err' = "none"
          /\ comps'[k].mounted /\ comps'[k].isReady
          /\ comps'[k].editorRef \notin {0, comps[k].editorRef}
          /\ sessions'[comps'[k].editorRef].text = comps'[k].initialCode
          /\ sessions'[comps'[k].editorRef].command = comps'[k].onSave]_vars

====
